---- MODULE Spec2Model ----
(***************************************************************************)
(* A model of the training, checkpointing and loss-assembly code of the    *)
(* three model classes of the repository:                                  *)
(*   RCVAEMultiTF  (src/rcvae/models/_rcvae_multi_tf.py)                    *)
(*   RCVAE         (src/rcvae/models/_rae.py)                               *)
(*   RCCVAE        (src/rcvae/models/_rccvae.py)                            *)
(*                                                                         *)
(* Weights are abstracted to version numbers: every optimizer step (every  *)
(* Keras fit that runs) produces weights with a number never used before,  *)
(* so two weight values are equal exactly when they are the same weights.  *)
(* Losses are small naturals, or NaN.                                      *)
(***************************************************************************)
EXTENDS Integers, Sequences, FiniteSets, TLC

\* ------------------------------------------------------------------ bounds
MaxEpochs == 4
MaxBatch == 2
MaxTrain == 2
MaxValid == 2
MaxLimit == 1
MaxThreshold == 1
MaxLoss == 2
MaxFits == 2
MaxConditions == 3
MaxBatchLen == 3
MaxLead == 2
MaxDim == 2
MaxRowsX == 1
MaxRowsY == 2
MaxData == 2
MaxNoise == 2
MaxCalls == 2
MaxSide == 48
MaxChannels == 2

\* ------------------------------------------------------- values and classes
\* reduce_mean over an empty kernel matrix; also the value of any arithmetic on it
NaN == -1
\* valid_data=None, the default of train
None == -1
\* n_conditions=2, the default of RCVAEMultiTF.__init__
DefaultNConditions == 2

\* num_partitions=2 in the mmd_loss of RCVAE and RCCVAE
KerasNumPartitions == 2

\* early_stop_limit=20 in the signature of train
DefaultEarlyStopLimit == 20

Classes == {"RCVAEMultiTF", "RCVAE", "RCCVAE"}
KerasClasses == {"RCVAE", "RCCVAE"}

\* ------------------------------------------------------------------ kernels
\* A batch is a sequence of rows, a row a sequence of dim coordinates.
\* squared_distance(x, y)[i][j]: sum over the coordinates of (x[i] - y[j])^2
RECURSIVE sum_squares(_, _, _)
sum_squares(u, v, k) ==
    IF k = 0 THEN 0 ELSE (u[k] - v[k]) * (u[k] - v[k]) + sum_squares(u, v, k - 1)

squared_distance(x, y) ==
    [i \in DOMAIN x |-> [j \in DOMAIN y |-> sum_squares(x[i], y[j], Len(x[i]))]]

\* The exponent with the mean over the coordinates left out
rbf_exponent_no_mean(u, v, dim) == <<sum_squares(u, v, dim), dim>>

\* The exponent e of the 'rbf' entry exp(-e), as the fraction <<numerator,
\* denominator>>: reduce_mean(square(tiled_x - tiled_y), axis=2) is the sum of
\* the squares over dim, and that mean is divided by dim once more
rbf_exponent(u, v, dim) == <<sum_squares(u, v, dim), dim * dim>>

\* One entry of a kernel matrix, kept as the expression that gives its value:
\*   rbf              exp(-num / den)
\*   multi-scale-rbf  sum over the 19 sigmas of exp(-num / (2 sigma)), over 19
\*   raphy            len(scales) * sum over the scales s of exp(-num / s^2)
\* (weights in 'raphy' is the number of scales, not a vector of weights)
KernelEntry(kind, num, den, scales) ==
    [kind |-> kind, num |-> num, den |-> den, scales |-> scales]

KernelKinds == {"rbf", "multi-scale-rbf", "raphy"}

\* Whether compute_kernel of class c has a branch for the kind; without one the
\* if/elif chain falls through and the function returns None
has_kernel_branch(c, kind) ==
    IF kind = "rbf" THEN TRUE
    ELSE IF kind = "raphy" /\ c # "RCVAEMultiTF" THEN TRUE
    ELSE IF kind = "multi-scale-rbf" THEN TRUE
    ELSE FALSE

\* compute_kernel(x, y, kind, scales=...) where it has a branch
compute_kernel(c, x, y, kind, scales) ==
    LET dim == Len(x[1])
    IN IF kind = "rbf"
       THEN [i \in DOMAIN x |-> [j \in DOMAIN y |->
                KernelEntry(kind, rbf_exponent(x[i], y[j], dim)[1],
                            rbf_exponent(x[i], y[j], dim)[2], << >>)]]
       ELSE IF kind = "raphy"
       THEN [i \in DOMAIN x |-> [j \in DOMAIN y |->
                KernelEntry(kind, sum_squares(x[i], y[j], dim), 1, scales)]]
       ELSE [i \in DOMAIN x |-> [j \in DOMAIN y |->
                KernelEntry(kind, sum_squares(x[i], y[j], dim), 1, << >>)]]

\* The entries of a kernel matrix, and how often one occurs in it
Entries(k) == {k[i][j] : i \in DOMAIN k, j \in DOMAIN k[1]}

Occurrences(k, t) ==
    Cardinality({ij \in (DOMAIN k) \X (DOMAIN k[1]) : k[ij[1]][ij[2]] = t})

\* mean(k) as a multiple of 1/scale: the coefficient of the entry t
mean_coefficient(k, t, scale) ==
    (Occurrences(k, t) * scale) \div (Len(k) * Len(k[1]))

\* The combination with the cross term taken once
mmd_coefficient_single_cross(cxx, cyy, cxy) == cxx + cyy - cxy

\* The combination with x_kernel in the place of y_kernel
mmd_coefficient_x_twice(cxx, cyy, cxy) == cxx + cxx - 2 * cxy

\* mean(x_kernel) + mean(y_kernel) - 2 * mean(xy_kernel), entry by entry
mmd_coefficient(cxx, cyy, cxy) == cxx + cyy - 2 * cxy

\* compute_mmd(x, y, kind): the value as a combination of kernel entries, each
\* with its integer coefficient over the common denominator scale; entries with
\* coefficient 0 are left out, so the value 0 is the empty combination
compute_mmd(c, x, y, kind, scales) ==
    LET x_kernel == compute_kernel(c, x, x, kind, scales)
        y_kernel == compute_kernel(c, y, y, kind, scales)
        xy_kernel == compute_kernel(c, x, y, kind, scales)
        scale == Len(x) * Len(x) * Len(y) * Len(y)
        coef(t) == mmd_coefficient(mean_coefficient(x_kernel, t, scale),
                                   mean_coefficient(y_kernel, t, scale),
                                   mean_coefficient(xy_kernel, t, scale))
    IN [scale |-> scale,
        terms |-> {p \in {<<t, coef(t)>> :
                             t \in Entries(x_kernel) \cup Entries(y_kernel)
                                       \cup Entries(xy_kernel)} : p[2] # 0}]

\* ------------------------------------------------------------ loss assembly
\* keras.utils.to_categorical(y, num_classes): label l becomes the one-hot row
to_categorical(l, n) == [k \in 0..(n - 1) |-> IF k = l THEN 1 ELSE 0]

\* An index that does not look at the row
argmax_ignoring_row(row) == 0

\* tf.argmax(row): the first index holding the maximum
argmax(row) ==
    CHOOSE k \in DOMAIN row :
        /\ \A m \in DOMAIN row : row[m] <= row[k]
        /\ \A m \in DOMAIN row : (m < k) => row[m] < row[k]

\* real_labels of a batch given as the sequence of its integer labels
real_labels(y_mb, n) == [s \in DOMAIN y_mb |-> argmax(to_categorical(y_mb[s], n))]

\* tf.dynamic_partition(data, real_labels, num_partitions=n): partition k holds
\* the positions of the batch whose label is k
dynamic_partition(labels, n) ==
    [k \in 0..(n - 1) |-> {s \in DOMAIN labels : labels[s] = k}]

\* compute_mmd(x, y): mean(K(x,x)) + mean(K(y,y)) - 2 mean(K(x,y)) is NaN as soon
\* as x or y is empty (every mean is then taken over an empty matrix); nothing in
\* compute_mmd or compute_kernel tests for emptiness
compute_mmd_is_nan(x, y) == (x = {}) \/ (y = {})

\* The loops of RCVAEMultiTF._loss_function:
\*   for i in range(len(conditions_mmd)):
\*       for j in range(i):
\*           loss += compute_mmd(conditions_mmd[j], conditions_mmd[j + 1])
\* as the sequence of (first index, second index) of the calls, in order.
\* The inner loop pairing partition j with partition i
RECURSIVE inner_loop_with_i(_, _)
inner_loop_with_i(i, j) ==
    IF j >= i THEN << >> ELSE << <<j, i>> >> \o inner_loop_with_i(i, j + 1)

RECURSIVE inner_loop(_, _)
inner_loop(i, j) ==
    IF j >= i THEN << >> ELSE << <<j, j + 1>> >> \o inner_loop(i, j + 1)

RECURSIVE outer_loop(_, _)
outer_loop(n, i) ==
    IF i >= n THEN << >> ELSE inner_loop(i, 0) \o outer_loop(n, i + 1)

mmd_calls_multi(n) == outer_loop(n, 0)

\* RCVAE / RCCVAE mmd_loss: source_mmd, dest_mmd = dynamic_partition(.., 2);
\* one call compute_mmd(source_mmd, dest_mmd)
mmd_calls_keras == << <<0, 1>> >>

mmd_calls(c, n) == IF c = "RCVAEMultiTF" THEN mmd_calls_multi(n) ELSE mmd_calls_keras

num_partitions(c, n) == IF c = "RCVAEMultiTF" THEN n ELSE KerasNumPartitions

\* The partition key: RCVAEMultiTF takes the argmax of the one-hot decoder
\* labels; the mmd_loss of RCVAE / RCCVAE takes the integer labels it is given
partition_key(c, y_mb, n) == IF c = "RCVAEMultiTF" THEN real_labels(y_mb, n) ELSE y_mb

\* Whether the MMD term of a batch is NaN: some call of compute_mmd gets an empty
\* partition (NaN + anything = NaN, beta * NaN = NaN)
mmd_loss_is_nan(c, y_mb, n) ==
    LET parts == dynamic_partition(partition_key(c, y_mb, n), num_partitions(c, n))
        calls == mmd_calls(c, n)
    IN \E q \in DOMAIN calls :
           compute_mmd_is_nan(parts[calls[q][1]], parts[calls[q][2]])

\* trvae_loss = mmd_loss + kl_recon_loss of a batch whose reconstruction/KL part
\* is the finite value fin
trvae_loss(c, y_mb, n, fin) == IF mmd_loss_is_nan(c, y_mb, n) THEN NaN ELSE fin

\* x + y of the running sums (valid_loss += current_loss_valid)
AddLoss(x, y) == IF x = NaN \/ y = NaN THEN NaN ELSE x + y

\* ------------------------------------------------------------- the networks
\* An expression matrix is given by the data it holds (id) and by whether it is a
\* scipy sparse matrix. X.A is the same data as a dense array.
densify(m) == [m EXCEPT !.sparse = FALSE]

\* The value of np.ones(shape=encoder_labels.shape) as a label
FakeLabel == 1

\* A point of the latent space, kept as the expression that gives it: the encoder
\* with weights w applied to the data x under labels, with the normal sample eps
\* drawn for it (kind "z"); or the caller's own array (kind "data")
Latent(kind, w, x, labels, eps) ==
    [kind |-> kind, w |-> w, x |-> x, labels |-> labels, eps |-> eps]

\* What a decoder with weights w makes of a latent point under labels: the
\* reconstruction (kind "x_hat") or the activations of the mmd layer (kind "mmd")
Output(kind, w, latent, labels) ==
    [kind |-> kind, w |-> w, latent |-> latent, labels |-> labels]

\* The latent coordinates each class's encoder returns for the matrix m.
\* RCVAE: the Dense layer z of an encoder that takes no labels. RCCVAE: output
\* [2] of encoder_model, the Lambda(_sample_z) layer. RCVAEMultiTF: the tensor
\* z_mean = mu + exp(log_var / 2) * eps with eps = tf.random_normal(...).
encoder(c, w, m, labels, eps) ==
    IF c = "RCVAE"
    THEN Latent("z", w, m.id, None, 0)
    ELSE Latent("z", w, m.id, labels, eps)

\* decoder_model.predict([latent, decoder_labels]) / decoder_model.predict(latent)
decoder(c, w, latent, labels) ==
    IF c = "RCVAE"
    THEN Output("x_hat", w, latent, None)
    ELSE Output("x_hat", w, latent, labels)

\* The graph inputs of RCVAEMultiTF a fetched tensor depends on, given what the
\* feed_dict feeds: a fed z_mean cuts the encoder and the sampling off
depends_on(tensor, feed) ==
    LET z_mean == IF "z_mean" \in feed
                  THEN {}
                  ELSE {"x", "encoder_labels", "is_training", "size"}
    IN IF tensor = "z_mean"
       THEN z_mean
       ELSE z_mean \cup {"decoder_labels", "is_training"}

\* sess.run(tensor, feed_dict) raises when a placeholder the tensor depends on is
\* not fed
session_run_raises(tensor, feed) == ~(depends_on(tensor, feed) \subseteq feed)

\* to_latent(data, labels) of class c with encoder weights w: the matrix handed
\* to the network, whether the call raises, and the value returned
to_latent(c, w, m, labels, eps) ==
    IF c = "RCVAEMultiTF"
    THEN LET data == IF m.sparse THEN densify(m) ELSE m
         IN [fed |-> {data},
             raised |-> session_run_raises("z_mean",
                           {"x", "encoder_labels", "size", "is_training"}),
             latent |-> encoder(c, w, data, labels, eps)]
    ELSE [fed |-> {m}, raised |-> FALSE, latent |-> encoder(c, w, m, labels, eps)]

\* Whether class c has a method to_mmd_layer
has_to_mmd_layer(c) == c # "RCVAE"

\* to_mmd_layer: RCCVAE predicts with the full model and takes output [1];
\* RCVAEMultiTF fetches mmd_hl, feeding the labels as decoder_labels only
to_mmd_layer(c, w, m, labels, feed_fake, eps) ==
    IF c = "RCCVAE"
    THEN LET decoder_labels == IF feed_fake THEN FakeLabel ELSE labels
         IN [fed |-> {m}, raised |-> FALSE,
             out |-> Output("mmd", w, encoder(c, w, m, labels, eps), decoder_labels)]
    ELSE [fed |-> {m},
          raised |-> session_run_raises("mmd_hl",
                        {"x", "decoder_labels", "size", "is_training"}),
          out |-> Output("mmd", w, encoder(c, w, m, labels, eps), labels)]

\* _reconstruct(data, encoder_labels, decoder_labels, use_data) with encoder
\* weights we and decoder weights wd. RCVAEMultiTF's takes one labels argument
\* and feeds it as encoder_labels next to the latent fed as z_mean.
reconstruct_swapped(c, we, wd, m, encoder_labels, decoder_labels, use_data, eps) ==
    LET enc == IF use_data
               THEN [fed |-> {m}, raised |-> FALSE,
                     latent |-> Latent("data", None, m.id, None, 0)]
               ELSE to_latent(c, we, m, decoder_labels, eps)
    IN [fed |-> enc.fed, raised |-> enc.raised,
        out |-> decoder(c, wd, enc.latent, encoder_labels)]

reconstruct(c, we, wd, m, encoder_labels, decoder_labels, use_data, eps) ==
    LET enc == IF use_data
               THEN [fed |-> {m}, raised |-> FALSE,
                     latent |-> Latent("data", None, m.id, None, 0)]
               ELSE to_latent(c, we, m, encoder_labels, eps)
    IN IF c = "RCVAEMultiTF"
       THEN [fed |-> enc.fed,
             raised |-> enc.raised
                        \/ session_run_raises("x_hat",
                               {"z_mean", "encoder_labels", "is_training"}),
             out |-> decoder(c, wd, enc.latent, encoder_labels)]
       ELSE [fed |-> enc.fed, raised |-> enc.raised,
             out |-> decoder(c, wd, enc.latent, decoder_labels)]

\* _reconstruct_from_mmd(data): a model from the decoder's second layer on,
\* applied to the caller's array
reconstruct_from_mmd(c, wd, m) ==
    [fed |-> {m}, raised |-> FALSE,
     out |-> Output("x_hat_from_mmd", wd, Latent("data", None, m.id, None, 0), None)]

\* The values data_space takes; any other than 'latent' (and, for RCCVAE,
\* 'mmd') is the raw data space, 'None' being the default
DataSpaces == {"None", "latent", "mmd"}

\* predict: the matrix data.X is made dense, then reconstructed. RCVAE has no
\* labels and no 'mmd' branch; RCVAEMultiTF has no data_space.
predict(c, we, wd, m, encoder_labels, decoder_labels, data_space, eps) ==
    LET X == IF m.sparse THEN densify(m) ELSE m
    IN IF c = "RCCVAE" /\ data_space = "mmd"
       THEN reconstruct_from_mmd(c, wd, X)
       ELSE IF c # "RCVAEMultiTF" /\ data_space = "latent"
       THEN reconstruct(c, we, wd, X, encoder_labels, decoder_labels, TRUE, eps)
       ELSE reconstruct(c, we, wd, X, encoder_labels, decoder_labels, FALSE, eps)

\* x_mb of RCVAEMultiTF.train: the slice of the matrix, .A of it when sparse
x_mb(m) == IF m.sparse THEN densify(m) ELSE m

\* What RCVAE.train / RCCVAE.train leave in train_data.X and valid_data.X: RCCVAE
\* replaces a sparse train_data.X by its .A before the configuration check and
\* leaves valid_data.X alone; RCVAE replaces both after the check
train_data_X(c, m, config_error) ==
    IF m.sparse /\ (c = "RCCVAE" \/ ~config_error) THEN densify(m) ELSE m

valid_data_X(c, m, use_validation, config_error) ==
    IF m.sparse /\ c = "RCVAE" /\ use_validation /\ ~config_error
    THEN densify(m) ELSE m

\* The matrices RCVAE.train / RCCVAE.train hand to fit
train_feeds(c, train, valid, use_validation) ==
    {train_data_X(c, train, FALSE)}
    \cup (IF use_validation THEN {valid_data_X(c, valid, TRUE, FALSE)} ELSE {})

\* ------------------------------------------------------- RCCVAE's decoders
\* The units of the Dense layer before the U-Net decoder's Reshape (256 * 4 * 4),
\* which line 231 writes as 4096
ReshapeUnits == 4096

\* The divisor of the image sides in the reshape target
ReshapeDivisor == 16

\* The number of UpSampling2D layers of the U-Net decoder
UpSamplings == 4

\* UpSampling2D(size=(2, 2)) applied k times to a side of n
RECURSIVE up_sampled(_, _)
up_sampled(n, k) == IF k = 0 THEN n ELSE 2 * up_sampled(n, k - 1)

\* The target_shape of the Reshape in the U-Net decoder; the floor division by
\* width * height raises ZeroDivisionError when a side is below 16
reshape_target(x_dim) ==
    LET width == x_dim[1] \div ReshapeDivisor
        height == x_dim[2] \div ReshapeDivisor
    IN IF width * height = 0
       THEN [raised |-> TRUE, shape |-> << >>]
       ELSE [raised |-> FALSE,
             shape |-> <<width, height, ReshapeUnits \div (width * height)>>]

\* The number of values a shape holds
RECURSIVE prod(_)
prod(shape) == IF shape = << >> THEN 1 ELSE Head(shape) * prod(Tail(shape))

\* _mmd_decoder: the shape of the reconstruction the decoder model outputs, or
\* that building it raises. Styles 1 and 2 reshape a Dense(prod(x_dim)) layer to
\* x_dim (the transposed convolutions of style 1 keep the sides and end in
\* x_dim[-1] channels). The U-Net style reshapes the 4096 units to the target
\* (Reshape raises when the sizes differ), up-samples four times and ends in a
\* convolution to x_dim[-1] channels.
mmd_decoder(arch_style, x_dim) ==
    IF arch_style \in {1, 2}
    THEN [raised |-> FALSE, shape |-> x_dim]
    ELSE LET target == reshape_target(x_dim)
         IN IF target.raised \/ prod(target.shape) # ReshapeUnits
            THEN [raised |-> TRUE, shape |-> << >>]
            ELSE [raised |-> FALSE,
                  shape |-> <<up_sampled(target.shape[1], UpSamplings),
                              up_sampled(target.shape[2], UpSamplings),
                              x_dim[3]>>]

\* ------------------------------------------------------------------- state
VARIABLES
    cls,          \* the class of the model instance
    pc,           \* where the running call of train is; "idle" between calls
    args,         \* the arguments of the running (or last) call of train
    params,       \* RCVAEMultiTF: the session's weights (a version number)
    global_step,  \* RCVAEMultiTF: self.global_step
    keras,        \* RCVAE / RCCVAE: the full model, encoder_model, decoder_model
    version,      \* the last weight version produced so far
    dir_exists,   \* whether the directory model_to_use exists
    ckpt,         \* RCVAEMultiTF: what saver.save last wrote under model_to_use
    files,        \* RCVAE / RCCVAE: the .h5 files in model_to_use, name -> weights
    loop,         \* the locals of RCVAEMultiTF.train
    outcome,      \* how the last call ended
    call,         \* bookkeeping of the running (or last) call
    batch,        \* a mini-batch handed to the loss: n_conditions and its labels
    loss_out,     \* what the loss assembly made of it
    kern,         \* a call of compute_kernel or compute_mmd: arguments and result
    net,          \* a call of to_latent, to_mmd_layer, predict or the feeding of data
    built         \* RCCVAE: the image shape given to __init__ and the decoder built

trainvars == <<cls, pc, args, params, global_step, keras, version, dir_exists, ckpt,
               files, loop, outcome, call>>

lossvars == <<batch, loss_out, kern, net, built>>

vars == <<trainvars, lossvars>>

NoArgs ==
    [use_validation |-> FALSE, valid_data |-> None, train_data |-> 0, n_epochs |-> 0,
     batch_size |-> 1, early_stop_limit |-> 0, threshold |-> 0,
     initial_run |-> TRUE, verbose |-> FALSE, save |-> TRUE, shuffle |-> FALSE]

\* The arguments RCVAEMultiTF.train is called with. train_data and valid_data are
\* given by their number of rows (shape[0]); valid_data may be None. (save is no
\* parameter of this train; it is carried for the Keras classes only. shuffle
\* is followed where the order of the rows is looked at, further down.)
TrainArgs ==
    [use_validation : BOOLEAN,
     valid_data : {None} \cup (0..MaxValid),
     train_data : 0..MaxTrain,
     n_epochs : 0..MaxEpochs,
     batch_size : 1..MaxBatch,
     early_stop_limit : 0..MaxLimit,
     threshold : 1..MaxThreshold,
     initial_run : BOOLEAN,
     verbose : BOOLEAN,
     save : {TRUE},
     shuffle : {FALSE}]

\* The arguments of RCVAE.train / RCCVAE.train that decide what the code of train
\* itself does; the others are handed to fit unchanged.
KerasTrainArgs ==
    [use_validation : BOOLEAN,
     valid_data : {None, 1},
     train_data : {1},
     n_epochs : 0..1,
     batch_size : {1},
     early_stop_limit : {0},
     threshold : {1},
     initial_run : BOOLEAN,
     verbose : {FALSE},
     save : BOOLEAN,
     shuffle : {FALSE}]

NoCkpt == [exists |-> FALSE, params |-> 0, global_step |-> 0]

NoFiles == [f \in {} |-> 0]

\* mbs: the training mini-batches of the running epoch in order, each the set of
\* the rows train_data[lower:upper] it holds (row r of Python being r + 1 here);
\* order: the local train_data, row r of it being row order[r] of the caller's
NoLoop ==
    [it |-> 0, lower |-> 0, loss_hist |-> << >>, patience_cnt |-> 0,
     valid_loss |-> 0, broke |-> FALSE, mbs |-> << >>, order |-> << >>,
     report |-> << >>]

\* kind: which method; batches, valids, saves, epochs: the training mini-batches,
\* validation mini-batches, checkpoint writes and epochs of this call; pre_*: the
\* instance and the model directory when the call began; valid_start: the weights
\* when the epoch's validation pass began; shuffles: the calls of shuffle_data
NoCall ==
    [kind |-> "none", batches |-> 0, valids |-> 0, saves |-> 0, epochs |-> 0,
     pre_params |-> 0, pre_step |-> 0, pre_version |-> 0,
     pre_keras |-> [full |-> 0, encoder |-> 0, decoder |-> 0, tied |-> TRUE],
     pre_dir |-> FALSE, pre_ckpt |-> NoCkpt, pre_files |-> NoFiles,
     fits |-> 0, valid_start |-> 0, shuffles |-> 0]

\* The bookkeeping of a call that starts now
NewCall(kind) ==
    [NoCall EXCEPT !.kind = kind,
                   !.pre_params = params, !.pre_step = global_step,
                   !.pre_version = version, !.pre_keras = keras,
                   !.pre_dir = dir_exists, !.pre_ckpt = ckpt, !.pre_files = files]

\* The states an RCVAEMultiTF instance and its model directory can be in when
\* train is called: just constructed, with or without a checkpoint of an earlier
\* run on disk; trained and saved; trained, saved and trained on by a call that
\* failed before its save.
MultiPrior ==
    { [params |-> 0, global_step |-> 0, version |-> 0, ckpt |-> NoCkpt],
      [params |-> 0, global_step |-> 0, version |-> 1,
       ckpt |-> [exists |-> TRUE, params |-> 1, global_step |-> 2]],
      [params |-> 1, global_step |-> 2, version |-> 1,
       ckpt |-> [exists |-> TRUE, params |-> 1, global_step |-> 2]],
      [params |-> 2, global_step |-> 3, version |-> 2,
       ckpt |-> [exists |-> TRUE, params |-> 1, global_step |-> 2]] }

NoBatch == [n_conditions |-> DefaultNConditions, y_mb |-> << >>]

\* parts: conditions_mmd, partition k given by the positions of the mini-batch
\* it holds
NoLossOut ==
    [done |-> FALSE, calls |-> << >>, trvae_loss |-> 0, raised |-> FALSE,
     parts |-> << >>]

\* __init__ of the three classes (and, for RCVAEMultiTF, the prior states above)
InitInstance ==
    /\ cls \in Classes
    /\ pc = "idle"
    /\ args = NoArgs
    /\ \E p \in MultiPrior :
          /\ (cls # "RCVAEMultiTF") => (p.version = 0 /\ ~p.ckpt.exists)
          /\ params = p.params
          /\ global_step = p.global_step
          /\ version = p.version
          /\ ckpt = p.ckpt
          /\ dir_exists \in (IF p.ckpt.exists THEN {TRUE} ELSE BOOLEAN)
    /\ keras = [full |-> 0, encoder |-> 0, decoder |-> 0, tied |-> TRUE]
    /\ files = NoFiles
    /\ loop = NoLoop
    /\ outcome = "none"
    /\ call = NoCall

NoKern ==
    [x |-> << >>, y |-> << >>, kind |-> "rbf", scales |-> << >>, op |-> "none",
     returned_none |-> FALSE, raised |-> FALSE, kernel |-> << >>,
     mmd |-> [scale |-> 1, terms |-> {}]]

\* No decoder built
NoBuilt == [x_dim |-> << >>, arch_style |-> 1, done |-> FALSE, raised |-> FALSE,
            x_hat |-> << >>]

\* No call on the networks yet: the expression matrices and labels a call will be
\* given, and nothing handed to a network
NoNet ==
    [data |-> [id |-> 0, sparse |-> FALSE], valid |-> [id |-> 0, sparse |-> FALSE],
     encoder_labels |-> 0, decoder_labels |-> 0, data_space |-> "None",
     op |-> "none", eps |-> 0, fed |-> {}, raised |-> FALSE, latents |-> << >>,
     outs |-> << >>]

Init ==
    /\ InitInstance
    /\ batch = NoBatch
    /\ loss_out = NoLossOut
    /\ built = NoBuilt
    /\ kern = NoKern
    /\ net = NoNet

\* ------------------------------------------------- RCVAEMultiTF.train
\* An exception caught and dropped where it is raised
RaiseSwallowed(why) ==
    /\ pc' = pc
    /\ outcome' = why

\* An exception leaves train: nothing after the raising statement runs.
Raise(why) ==
    /\ pc' = "idle"
    /\ outcome' = why

\* saver.restore(sess, model_to_use): every saved variable, global_step included
SaverRestore ==
    /\ params' = ckpt.params
    /\ global_step' = ckpt.global_step

\* The check's condition with the check removed
ConfigErrorIgnored(a) == FALSE

\* if use_validation and valid_data is None: raise Exception(...)
\* (_rcvae_multi_tf.py 433-434, _rae.py 363-367, _rccvae.py 559-560)
ConfigError(a) == a.use_validation /\ a.valid_data = None

\* The orders of n rows
RowOrders(n) == {f \in [1..n -> 1..n] : \A i, j \in 1..n : (f[i] = f[j]) => (i = j)}

\* The rows of the local train_data after lines 431-432: shuffle_data returns
\* them in some order; without shuffle they stay as the caller gave them
Orders(shuffle, n) == IF shuffle THEN RowOrders(n) ELSE {[r \in 1..n |-> r]}

\* Lines 424-440: the step reset or the restore, the shuffle, the configuration
\* check, the initialisation of the locals.
MultiTrainCall(a) ==
    /\ UNCHANGED lossvars
    /\ args' = a
    /\ UNCHANGED <<cls, keras, version, dir_exists, ckpt, files>>
    /\ IF ~a.initial_run /\ ~ckpt.exists
       THEN \* saver.restore finds no checkpoint
            /\ Raise("failed")
            /\ call' = NewCall("train")
            /\ loop' = NoLoop
            /\ UNCHANGED <<params, global_step>>
       ELSE /\ \E order \in Orders(a.shuffle, a.train_data) :
                  loop' = [NoLoop EXCEPT !.order = order]
            /\ call' = [NewCall("train") EXCEPT
                           !.shuffles = IF a.shuffle THEN 1 ELSE 0]
            /\ IF a.initial_run
               THEN params' = params /\ global_step' = 0
               ELSE SaverRestore
            /\ IF ConfigError(a)
               THEN Raise("failed")
               ELSE /\ pc' = "epoch"
                    /\ outcome' = "running"

\* The loop head running one epoch too many
MoreEpochsInclusive(it, n_epochs) == it <= n_epochs

\* for it in range(n_epochs): whether there is another epoch
MoreEpochs(it, n_epochs) == it < n_epochs

\* Line 441-446: the head of for it in range(n_epochs) and the step increment
EpochBegin ==
    /\ UNCHANGED lossvars
    /\ pc = "epoch"
    /\ UNCHANGED <<cls, args, params, keras, version, dir_exists, ckpt, files, outcome>>
    /\ IF MoreEpochs(loop.it, args.n_epochs)
       THEN /\ global_step' = global_step + 1
            /\ loop' = [loop EXCEPT !.lower = 0, !.mbs = << >>]
            /\ call' = [call EXCEPT !.epochs = call.epochs + 1]
            /\ pc' = "train_batches"
       ELSE /\ pc' = "save"
            /\ UNCHANGED <<global_step, loop, call>>

\* The mini-batch length without the min against the number of rows
BatchLenUnclipped(lower, n, batch_size) == batch_size

\* upper - lower of the mini-batch starting at lower
BatchLen(lower, n, batch_size) ==
    (IF lower + batch_size < n THEN lower + batch_size ELSE n) - lower

\* The label columns a mini-batch of the given length can have
BatchLabels(len) == [1..len -> 0..(DefaultNConditions - 1)]

\* The rows of data[lower:lower + len]
Slice(lower, len) == (lower + 1)..(lower + len)

\* What sess.run([self.solver, ...]) does to the weights: one Adam step
OptimizerStep ==
    /\ version' = version + 1
    /\ params' = version + 1

\* The validation fetches with the solver among them
ValidationStep ==
    /\ version' = version + 1
    /\ params' = version + 1

\* What sess.run([self.trvae_loss, self.mmd_loss]) does to the weights: the
\* fetches hold no solver and is_training is False
NoOptimizerStep == UNCHANGED <<version, params>>

\* Lines 447-462: one training mini-batch, or an exception out of sess.run
TrainBatch ==
    /\ UNCHANGED <<batch, loss_out, kern, built>>
    /\ net' = [net EXCEPT !.fed = @ \cup {x_mb(net.data)}]
    /\ pc = "train_batches"
    /\ loop.lower < args.train_data
    /\ UNCHANGED <<cls, args, global_step, keras, dir_exists, ckpt, files>>
    /\ \/ /\ OptimizerStep
          /\ loop' = [loop EXCEPT
                         !.lower = loop.lower + args.batch_size,
                         !.mbs = Append(@, Slice(loop.lower,
                                                 BatchLen(loop.lower, args.train_data,
                                                          args.batch_size)))]
          /\ call' = [call EXCEPT !.batches = call.batches + 1]
          /\ UNCHANGED <<pc, outcome>>
       \/ /\ Raise("failed")
          /\ UNCHANGED <<version, params, loop, call>>

\* The training range is exhausted: on to the validation pass or to the report
TrainBatchesDone ==
    /\ UNCHANGED lossvars
    /\ pc = "train_batches"
    /\ loop.lower >= args.train_data
    /\ pc' = IF args.use_validation THEN "valid_batches" ELSE "epoch_end"
    /\ loop' = [loop EXCEPT !.lower = 0, !.valid_loss = 0]
    /\ call' = [call EXCEPT !.valid_start = params]
    /\ UNCHANGED <<cls, args, params, global_step, keras, version, dir_exists, ckpt,
                   files, outcome>>

\* Lines 466-482: one validation mini-batch, or an exception out of sess.run.
\* valid_loss keeps whether the running sum is finite (0) or NaN.
ValidBatch ==
    /\ UNCHANGED <<batch, loss_out, kern, built>>
    /\ net' = [net EXCEPT !.fed = @ \cup {x_mb(net.valid)}]
    /\ pc = "valid_batches"
    /\ loop.lower < args.valid_data
    /\ UNCHANGED <<cls, args, global_step, keras, dir_exists, ckpt, files>>
    /\ \/ \E y_mb \in BatchLabels(BatchLen(loop.lower, args.valid_data, args.batch_size)) :
             /\ NoOptimizerStep
             /\ loop' = [loop EXCEPT
                            !.lower = loop.lower + args.batch_size,
                            !.valid_loss =
                                AddLoss(loop.valid_loss,
                                        trvae_loss(cls, y_mb, DefaultNConditions, 0))]
             /\ call' = [call EXCEPT !.valids = call.valids + 1]
             /\ UNCHANGED <<pc, outcome>>
       \/ /\ Raise("failed")
          /\ UNCHANGED <<version, params, loop, call>>

ValidBatchesDone ==
    /\ UNCHANGED lossvars
    /\ pc = "valid_batches"
    /\ loop.lower >= args.valid_data
    /\ pc' = "epoch_end"
    /\ UNCHANGED <<cls, args, params, global_step, keras, version, dir_exists, ckpt,
                   files, loop, outcome, call>>

\* valid_loss / valid_data.shape[0], the value appended to loss_hist: NaN when
\* the sum is NaN, else some finite mean loss
EpochLosses(valid_loss) == IF valid_loss = NaN THEN {NaN} ELSE 0..MaxLoss

\* loss_hist[it - 1] - loss_hist[it] > min_delta; a comparison with NaN on
\* either side is False
Improved(prev, cur, min_delta) ==
    /\ prev # NaN
    /\ cur # NaN
    /\ prev - cur > min_delta

\* The counter leaving the first epoch out
NextPatienceFromSecond(hist, it, cnt, min_delta) ==
    IF it = 0 \/ Improved(hist[it], hist[it + 1], min_delta)
    THEN 0
    ELSE cnt + 1

\* patience_cnt after the epoch whose (0-based) index is it, hist being loss_hist
\* with this epoch's loss appended (Python's hist[k] is hist[k + 1] here)
NextPatience(hist, it, cnt, min_delta) ==
    IF it > 0 /\ Improved(hist[it], hist[it + 1], min_delta)
    THEN 0
    ELSE cnt + 1

\* if patience_cnt > patience: save and break
StopNow(cnt, patience) == cnt > patience

\* The per-epoch print divides the running sums by shape[0] // batch_size. The
\* sums are numpy scalars once a batch has run (division by 0 then gives inf or
\* nan and a warning) and the Python int 0 when no batch has run, in which case
\* the divisor is 0 too and the division raises ZeroDivisionError.
ReportRaises(a) ==
    a.verbose /\ a.train_data = 0

\* train_data.shape[0] // batch_size and valid_data.shape[0] // batch_size in the
\* f-strings of lines 493 and 496
report_divisor(n, batch_size) == n \div batch_size

\* The divisors of the last per-epoch print (old when verbose is off): that of
\* the training averages, and with validation that of the validation averages
Report(a, old) ==
    IF ~a.verbose THEN old
    ELSE IF a.use_validation
         THEN <<report_divisor(a.train_data, a.batch_size),
                report_divisor(a.valid_data, a.batch_size)>>
         ELSE <<report_divisor(a.train_data, a.batch_size)>>

\* The save without the makedirs before it
SaverSaveNoMakedirs ==
    /\ ckpt' = [exists |-> TRUE, params |-> params, global_step |-> global_step]
    /\ call' = [call EXCEPT !.saves = call.saves + 1]
    /\ UNCHANGED dir_exists

\* os.makedirs(model_to_use, exist_ok=True); saver.save(sess, model_to_use)
SaverSave ==
    /\ dir_exists' = TRUE
    /\ ckpt' = [exists |-> TRUE, params |-> params, global_step |-> global_step]
    /\ call' = [call EXCEPT !.saves = call.saves + 1]

\* The early-stopping bookkeeping done in every epoch
early_stopping_always(a) == TRUE

\* if use_validation: (line 463) the branch that holds the validation pass, the
\* loss history and the early-stopping counter
early_stopping(a) == a.use_validation

\* Lines 483-496: the end of an epoch
EpochEnd ==
    /\ UNCHANGED lossvars
    /\ pc = "epoch_end"
    /\ UNCHANGED <<cls, args, params, global_step, keras, version, files>>
    /\ IF early_stopping(args)
       THEN IF args.valid_data = 0
            THEN \* valid_loss / valid_data.shape[0] is 0 / 0 of Python ints
                 /\ Raise("failed")
                 /\ UNCHANGED <<dir_exists, ckpt, loop, call>>
            ELSE \E mean \in EpochLosses(loop.valid_loss) :
                 LET hist == Append(loop.loss_hist, mean)
                     cnt == NextPatience(hist, loop.it, loop.patience_cnt,
                                         args.threshold)
                 IN IF StopNow(cnt, args.early_stop_limit)
                    THEN /\ SaverSave
                         /\ loop' = [loop EXCEPT !.loss_hist = hist,
                                                 !.patience_cnt = cnt,
                                                 !.broke = TRUE]
                         /\ pc' = "save"
                         /\ UNCHANGED outcome
                    ELSE IF ReportRaises(args)
                         THEN /\ Raise("failed")
                              /\ loop' = [loop EXCEPT !.loss_hist = hist,
                                                      !.patience_cnt = cnt]
                              /\ UNCHANGED <<dir_exists, ckpt, call>>
                         ELSE /\ loop' = [loop EXCEPT !.loss_hist = hist,
                                                      !.patience_cnt = cnt,
                                                      !.report = Report(args, @),
                                                      !.it = loop.it + 1]
                              /\ pc' = "epoch"
                              /\ UNCHANGED <<dir_exists, ckpt, call, outcome>>
       ELSE IF ReportRaises(args)
            THEN /\ Raise("failed")
                 /\ UNCHANGED <<dir_exists, ckpt, loop, call>>
            ELSE /\ loop' = [loop EXCEPT !.report = Report(args, @),
                                         !.it = loop.it + 1]
                 /\ pc' = "epoch"
                 /\ UNCHANGED <<dir_exists, ckpt, call, outcome>>

\* Lines 497-499, reached by the break and by the end of the loop
MultiSave ==
    /\ UNCHANGED lossvars
    /\ pc = "save"
    /\ SaverSave
    /\ pc' = "idle"
    /\ outcome' = IF loop.broke THEN "converged" ELSE "exhausted"
    /\ UNCHANGED <<cls, args, params, global_step, keras, version, files, loop>>

\* RCVAEMultiTF.restore_model, line 382
MultiRestore ==
    /\ UNCHANGED lossvars
    /\ cls = "RCVAEMultiTF"
    /\ pc = "idle"
    /\ call.kind = "none"
    /\ call' = NewCall("restore_model")
    /\ IF ckpt.exists
       THEN SaverRestore /\ outcome' = "returned"
       ELSE UNCHANGED <<params, global_step>> /\ outcome' = "failed"
    /\ UNCHANGED <<cls, pc, args, keras, version, dir_exists, ckpt, files, loop>>

\* ------------------------------------------------- RCVAE and RCCVAE
\* The file names train writes, in the order of the three save calls
\* (_rae.py 412-414, _rccvae.py 602-604)
TrainWrites(c) ==
    IF c = "RCVAE"
    THEN <<"mmd_rae.h5", "encoder.h5", "decoder.h5">>
    ELSE <<"mmd_cvae.h5", "encoder.h5", "decoder.h5">>

\* The file names restore_model loads, in the order of the three load_model calls
\* (_rae.py 322-324, _rccvae.py 510-512)
RestoreReads(c) ==
    IF c = "RCVAE"
    THEN <<"mmd_ae.h5", "encoder.h5", "decoder.h5">>
    ELSE <<"mmd_cvae.h5", "encoder.h5", "decoder.h5">>

\* The attribute each of the three calls saves from or loads into
Slot(k) == <<"full", "encoder", "decoder">>[k]

\* model.save(os.path.join(model_to_use, name), overwrite=True) of the first k
\* artifacts
RECURSIVE WriteFiles(_, _, _, _)
WriteFiles(fs, c, m, k) ==
    IF k = 0 THEN fs
    ELSE LET before == WriteFiles(fs, c, m, k - 1)
             name == TrainWrites(c)[k]
         IN [f \in DOMAIN before \cup {name} |->
                IF f = name THEN m[Slot(k)] ELSE before[f]]

\* The models after model.fit has run at least one epoch: the full model is
\* trained; encoder_model and decoder_model share its layers as long as all three
\* come from _create_network, and are separate objects once loaded by load_model
Fitted(m, v) ==
    IF m.tied
    THEN [m EXCEPT !.full = v, !.encoder = v, !.decoder = v]
    ELSE [m EXCEPT !.full = v]

\* RCVAE.train / RCCVAE.train: the configuration check, fit, the three saves.
\* fit is Keras code: it raises, or runs ran epochs (no more than n_epochs, and
\* fewer when EarlyStopping stops it). A save raises on an I/O error, after
\* written of the three files.
KerasTrainCall(a) ==
    /\ UNCHANGED <<batch, loss_out, kern, built>>
    /\ net' = [net EXCEPT
                  !.data = train_data_X(cls, @, ConfigError(a)),
                  !.valid = valid_data_X(cls, @, a.use_validation, ConfigError(a)),
                  !.fed = IF ConfigError(a)
                          THEN @
                          ELSE @ \cup train_feeds(cls, net.data, net.valid,
                                                  a.use_validation)]
    /\ args' = a
    /\ UNCHANGED <<cls, pc, params, global_step, ckpt, loop>>
    /\ IF ConfigError(a)
       THEN /\ outcome' = "failed"
            /\ call' = NewCall("train")
            /\ UNCHANGED <<keras, version, dir_exists, files>>
       ELSE \E fit_ok \in BOOLEAN, ran \in 0..a.n_epochs, written \in 0..3 :
            /\ (a.n_epochs > 0) => (ran > 0)
            /\ IF ~fit_ok
               THEN /\ outcome' = "failed"
                    /\ call' = [NewCall("train") EXCEPT !.fits = 1]
                    /\ UNCHANGED <<keras, version, dir_exists, files>>
               ELSE LET m == IF ran > 0 THEN Fitted(keras, version + 1) ELSE keras
                    IN /\ keras' = m
                       /\ version' = IF ran > 0 THEN version + 1 ELSE version
                       /\ IF a.save
                          THEN /\ dir_exists' = TRUE
                               /\ files' = WriteFiles(files, cls, m, written)
                               /\ outcome' = IF written = 3 THEN "returned" ELSE "failed"
                               /\ call' = [NewCall("train") EXCEPT
                                              !.fits = 1, !.epochs = ran,
                                              !.saves = written]
                          ELSE /\ written = 3
                               /\ outcome' = "returned"
                               /\ call' = [NewCall("train") EXCEPT
                                              !.fits = 1, !.epochs = ran]
                               /\ UNCHANGED <<dir_exists, files>>

\* The three load_model calls of restore_model, in order: each assigns its
\* attribute as soon as it returns, and raises when its file is missing
RECURSIVE LoadFiles(_, _, _, _)
LoadFiles(m, fs, c, k) ==
    IF k > 3 THEN [m EXCEPT !.tied = FALSE]
    ELSE IF RestoreReads(c)[k] \notin DOMAIN fs
         THEN m
         ELSE LoadFiles([m EXCEPT ![Slot(k)] = fs[RestoreReads(c)[k]],
                                  !.tied = FALSE],
                        fs, c, k + 1)

\* Whether restore_model finds every file it loads
RestoreFindsAll(fs, c) ==
    \A k \in 1..3 : RestoreReads(c)[k] \in DOMAIN fs

\* RCVAE.restore_model / RCCVAE.restore_model
KerasRestore ==
    /\ UNCHANGED lossvars
    /\ cls \in KerasClasses
    /\ pc = "idle"
    /\ call' = NewCall("restore_model")
    /\ keras' = LoadFiles(keras, files, cls, 1)
    /\ outcome' = IF RestoreFindsAll(files, cls) THEN "returned" ELSE "failed"
    /\ UNCHANGED <<cls, pc, args, params, global_step, version, dir_exists, ckpt,
                   files, loop>>

\* train is called on an idle RCVAEMultiTF instance (the model follows one call of
\* train per instance, from each of the prior states)
MultiTrain ==
    /\ cls = "RCVAEMultiTF"
    /\ pc = "idle"
    /\ call.kind # "train"
    /\ \E a \in TrainArgs : MultiTrainCall(a)

\* train is called on an RCVAE / RCCVAE instance
KerasTrain ==
    /\ cls \in KerasClasses
    /\ pc = "idle"
    /\ version < MaxFits
    /\ \E a \in KerasTrainArgs : KerasTrainCall(a)

Next ==
    \/ MultiTrain
    \/ EpochBegin
    \/ TrainBatch
    \/ TrainBatchesDone
    \/ ValidBatch
    \/ ValidBatchesDone
    \/ EpochEnd
    \/ MultiSave
    \/ MultiRestore
    \/ KerasTrain
    \/ KerasRestore

Spec == Init /\ [][Next]_vars

\* The same, with the progress the interpreter gives a running call: a statement
\* that can run does run
FairSpec == Spec /\ WF_vars(Next)

\* ------------------------------------------------- resuming in a new process
\* The models an earlier process trained and saved
SavedKeras == [full |-> 1, encoder |-> 1, decoder |-> 1, tied |-> TRUE]

\* A newly constructed instance whose model_to_use holds what an earlier process
\* of the same class trained and saved
InitResume ==
    /\ cls \in Classes
    /\ pc = "idle"
    /\ args = NoArgs
    /\ params = 0
    /\ global_step = 0
    /\ version = 1
    /\ keras = [full |-> 0, encoder |-> 0, decoder |-> 0, tied |-> TRUE]
    /\ dir_exists = TRUE
    /\ IF cls = "RCVAEMultiTF"
       THEN /\ ckpt = [exists |-> TRUE, params |-> 1, global_step |-> 2]
            /\ files = NoFiles
       ELSE /\ ckpt = NoCkpt
            /\ files = WriteFiles(NoFiles, cls, SavedKeras, 3)
    /\ loop = NoLoop
    /\ outcome = "none"
    /\ call = NoCall
    /\ batch = NoBatch
    /\ loss_out = NoLossOut
    /\ built = NoBuilt
    /\ kern = NoKern
    /\ net = NoNet

SpecResume == InitResume /\ [][Next]_vars

\* ------------------------------------------------- the loss on one mini-batch
\* The mini-batches the loss can be handed: RCVAEMultiTF is constructed with any
\* n_conditions >= 1, the Keras classes partition into 2; a mini-batch is a
\* non-empty slice of the label column
Batches(c) ==
    { [n_conditions |-> n, y_mb |-> y] :
        n \in (IF c = "RCVAEMultiTF" THEN 1..MaxConditions ELSE {KerasNumPartitions}),
        y \in UNION { [1..len -> 0..(MaxConditions - 1)] : len \in 1..MaxBatchLen } }

LabelsInRange(b) == \A s \in DOMAIN b.y_mb : b.y_mb[s] < b.n_conditions

InitLoss ==
    /\ InitInstance
    /\ batch \in {b \in Batches(cls) : LabelsInRange(b)}
    /\ loss_out = NoLossOut
    /\ built = NoBuilt
    /\ kern = NoKern
    /\ net = NoNet

\* _loss_function evaluated on the mini-batch (RCVAEMultiTF lines 238-254; the
\* mmd_loss closures of RCVAE and RCCVAE): the calls of compute_mmd it makes and
\* the value of the loss. Nothing in it raises on an empty partition.
LossFunction ==
    /\ ~loss_out.done
    /\ \E fin \in 0..MaxLoss :
          loss_out' = [done |-> TRUE,
                       calls |-> mmd_calls(cls, batch.n_conditions),
                       trvae_loss |-> trvae_loss(cls, batch.y_mb, batch.n_conditions, fin),
                       raised |-> FALSE,
                       parts |-> dynamic_partition(
                                    partition_key(cls, batch.y_mb, batch.n_conditions),
                                    num_partitions(cls, batch.n_conditions))]
    /\ UNCHANGED <<trainvars, batch, kern, net, built>>

\* The next mini-batch is fed
FeedBatch ==
    /\ loss_out.done
    /\ batch' \in {b \in Batches(cls) : LabelsInRange(b)}
    /\ loss_out' = NoLossOut
    /\ UNCHANGED <<trainvars, kern, net, built>>

NextLoss == LossFunction \/ FeedBatch

SpecLoss == InitLoss /\ [][NextLoss]_vars

\* ------------------------------------------- compute_kernel and compute_mmd
Coordinates == {0, 1}

Rows(dim) == [1..dim -> Coordinates]

BatchesOf(dim, max_rows) == UNION {[1..n -> Rows(dim)] : n \in 1..max_rows}

\* The scales keyword of the 'raphy' kernel: absent (the default []) or given
ScalesOf(kind) == IF kind = "raphy" THEN {<< >>, <<1, 2>>} ELSE {<< >>}

\* compute_kernel and compute_mmd are static methods: the instance plays no part
\* in them, and is taken as constructed
InitKernel ==
    /\ InitInstance
    /\ version = 0
    /\ ~dir_exists
    /\ batch = NoBatch
    /\ loss_out = NoLossOut
    /\ built = NoBuilt
    /\ net = NoNet
    /\ \E dim \in 1..MaxDim :
       \E x \in BatchesOf(dim, MaxRowsX), y \in BatchesOf(dim, MaxRowsY) :
       \E kind \in KernelKinds :
       \E scales \in ScalesOf(kind) :
          kern = [NoKern EXCEPT !.x = x, !.y = y, !.kind = kind, !.scales = scales]

\* compute_kernel(x, y, kind) is called
KernelCall ==
    /\ kern.op = "none"
    /\ kern' = IF has_kernel_branch(cls, kern.kind)
               THEN [kern EXCEPT !.op = "kernel",
                                 !.kernel = compute_kernel(cls, kern.x, kern.y,
                                                           kern.kind, kern.scales)]
               ELSE [kern EXCEPT !.op = "kernel", !.returned_none = TRUE]
    /\ UNCHANGED <<trainvars, batch, loss_out, net, built>>

\* compute_mmd(x, y, kind) is called; the mean of None raises
MmdCall ==
    /\ kern.op = "none"
    /\ kern' = IF has_kernel_branch(cls, kern.kind)
               THEN [kern EXCEPT !.op = "mmd",
                                 !.mmd = compute_mmd(cls, kern.x, kern.y,
                                                     kern.kind, kern.scales)]
               ELSE [kern EXCEPT !.op = "mmd", !.raised = TRUE]
    /\ UNCHANGED <<trainvars, batch, loss_out, net, built>>

NextKernel == KernelCall \/ MmdCall

SpecKernel == InitKernel /\ [][NextKernel]_vars

\* ------------------------------------------- to_latent, to_mmd_layer, predict
\* The expression matrices a call is given
Matrices == [id : 1..MaxData, sparse : BOOLEAN]

\* The condition labels of a call (one label for all its rows)
Labels == 0..(DefaultNConditions - 1)

\* The values tf.random_normal / K.random_normal can draw
Samples == 1..MaxNoise

\* The weights the methods compute with
encoder_weights == IF cls = "RCVAEMultiTF" THEN params ELSE keras.encoder

decoder_weights == IF cls = "RCVAEMultiTF" THEN params ELSE keras.decoder

full_weights == IF cls = "RCVAEMultiTF" THEN params ELSE keras.full

\* Keras is handed something its functions are not documented for (a scipy
\* sparse matrix as an input array, a layer as the inputs of a Model): it
\* raises, or it computes
Rejections(fed, space) ==
    IF (\E m \in fed : m.sparse) \/ (cls = "RCCVAE" /\ space = "mmd")
    THEN BOOLEAN
    ELSE {FALSE}

\* A constructed instance, and the arguments the calls on it will be given
InitNet ==
    /\ InitInstance
    /\ version = 0
    /\ ~dir_exists
    /\ batch = NoBatch
    /\ loss_out = NoLossOut
    /\ built = NoBuilt
    /\ kern = NoKern
    /\ \E data \in Matrices, el \in Labels, dl \in Labels, space \in DataSpaces :
          net = [NoNet EXCEPT !.data = data, !.encoder_labels = el,
                              !.decoder_labels = dl, !.data_space = space]

\* to_latent(data, labels) is called (again, with the same arguments)
ToLatentCall ==
    /\ net.op \in {"none", "to_latent"}
    /\ ~net.raised
    /\ Len(net.latents) < MaxCalls
    /\ \E eps \in Samples :
          LET r == to_latent(cls, encoder_weights, net.data, net.encoder_labels, eps)
          IN \E rejected \in Rejections(r.fed, "None") :
                net' = [net EXCEPT
                           !.op = "to_latent",
                           !.fed = @ \cup r.fed,
                           !.raised = r.raised \/ rejected,
                           !.latents = IF r.raised \/ rejected
                                       THEN @ ELSE Append(@, r.latent)]
    /\ UNCHANGED <<trainvars, batch, loss_out, kern, built>>

\* to_mmd_layer(data, labels) is called; RCVAE has no such method
ToMmdLayerCall ==
    /\ net.op = "none"
    /\ IF ~has_to_mmd_layer(cls)
       THEN net' = [net EXCEPT !.op = "to_mmd_layer", !.raised = TRUE]
       ELSE \E eps \in Samples, feed_fake \in BOOLEAN :
            LET r == to_mmd_layer(cls, full_weights, net.data, net.encoder_labels,
                                  feed_fake, eps)
            IN \E rejected \in Rejections(r.fed, "None") :
                  net' = [net EXCEPT
                             !.op = "to_mmd_layer",
                             !.fed = @ \cup r.fed,
                             !.raised = r.raised \/ rejected,
                             !.outs = IF r.raised \/ rejected
                                      THEN @ ELSE Append(@, r.out)]
    /\ UNCHANGED <<trainvars, batch, loss_out, kern, built>>

\* predict(data, encoder_labels, decoder_labels, data_space) is called (RCVAE
\* and RCVAEMultiTF take fewer arguments); eps is kept for the comparison with
\* to_latent
PredictCall ==
    /\ net.op = "none"
    /\ \E eps \in Samples :
          LET r == predict(cls, encoder_weights, decoder_weights, net.data,
                           net.encoder_labels, net.decoder_labels, net.data_space,
                           eps)
          IN \E rejected \in Rejections(r.fed, net.data_space) :
                net' = [net EXCEPT
                           !.op = "predict",
                           !.eps = eps,
                           !.data = IF @.sparse /\ cls # "RCVAE"
                                    THEN densify(@) ELSE @,
                           !.fed = @ \cup r.fed,
                           !.raised = r.raised \/ rejected,
                           !.outs = IF r.raised \/ rejected
                                    THEN @ ELSE Append(@, r.out)]
    /\ UNCHANGED <<trainvars, batch, loss_out, kern, built>>

NextNet == ToLatentCall \/ ToMmdLayerCall \/ PredictCall

SpecNet == InitNet /\ [][NextNet]_vars

\* ------------------------------------------- train on sparse matrices
\* train of any class, called with train_data.X and valid_data.X dense or sparse
InitFeed ==
    /\ InitInstance
    /\ batch = NoBatch
    /\ loss_out = NoLossOut
    /\ built = NoBuilt
    /\ kern = NoKern
    /\ \E ts \in BOOLEAN, vs \in BOOLEAN :
          net = [NoNet EXCEPT !.data = [id |-> 1, sparse |-> ts],
                              !.valid = [id |-> 2, sparse |-> vs]]

SpecFeed == InitFeed /\ [][Next]_vars

\* ------------------------------------------- RCCVAE.__init__ on an image shape
\* The image shapes (H, W, C) and the values of arch_style (any other than 1 and
\* 2 selects the U-Net style)
ImageShapes == (1..MaxSide) \X (1..MaxSide) \X (1..MaxChannels)

ArchStyles == 1..3

\* __init__ has stored x_dimension and arch_style and is about to build the
\* networks
InitShape ==
    /\ InitInstance
    /\ cls = "RCCVAE"
    /\ ~dir_exists
    /\ batch = NoBatch
    /\ loss_out = NoLossOut
    /\ kern = NoKern
    /\ net = NoNet
    /\ \E x_dim \in ImageShapes, arch_style \in ArchStyles :
          built = [NoBuilt EXCEPT !.x_dim = x_dim, !.arch_style = arch_style]

\* _create_network builds the decoder model
CreateNetwork ==
    /\ ~built.done
    /\ LET d == mmd_decoder(built.arch_style, built.x_dim)
       IN built' = [built EXCEPT !.done = TRUE, !.raised = d.raised, !.x_hat = d.shape]
    /\ UNCHANGED <<trainvars, batch, loss_out, kern, net>>

NextShape == CreateNetwork

SpecShape == InitShape /\ [][NextShape]_vars

\* ------------------------------------------------- train with and without shuffle
\* Calls of RCVAEMultiTF.train that differ in shuffle, in the sizes and in the
\* number of epochs; no validation
ShuffleArgs ==
    [use_validation : {FALSE}, valid_data : {None}, train_data : 1..(MaxTrain + 1),
     n_epochs : 0..MaxEpochs, batch_size : 1..MaxBatch,
     early_stop_limit : {0}, threshold : {1},
     initial_run : {TRUE}, verbose : {FALSE}, save : {TRUE}, shuffle : BOOLEAN]

InitShuffle == Init /\ cls = "RCVAEMultiTF"

ShuffleTrain ==
    /\ pc = "idle"
    /\ call.kind # "train"
    /\ \E a \in ShuffleArgs : MultiTrainCall(a)

NextShuffle ==
    \/ ShuffleTrain
    \/ EpochBegin
    \/ TrainBatch
    \/ TrainBatchesDone
    \/ EpochEnd
    \/ MultiSave

SpecShuffle == InitShuffle /\ [][NextShuffle]_vars

\* ------------------------------------------------- a run onto a plateau
\* The validation losses of the run: any losses for up to MaxLead epochs, and the
\* same loss in every epoch from then on
PlateauLen == DefaultEarlyStopLimit + 5

PlateauHist(h) ==
    /\ \A k \in DOMAIN h : h[k] # NaN
    /\ \E lead \in 0..MaxLead : \A k \in (lead + 1)..(Len(h) - 1) : h[k + 1] = h[k]

PlateauArgs ==
    [use_validation : {TRUE}, valid_data : {MaxValid}, train_data : {1},
     n_epochs : {MaxLead + PlateauLen}, batch_size : {MaxBatch},
     early_stop_limit : {DefaultEarlyStopLimit}, threshold : {1},
     initial_run : BOOLEAN, verbose : {FALSE}, save : {TRUE}, shuffle : {FALSE}]

InitPlateau == Init /\ cls = "RCVAEMultiTF"

PlateauTrain ==
    /\ pc = "idle"
    /\ call.kind # "train"
    /\ \E a \in PlateauArgs : MultiTrainCall(a)

\* a validation mini-batch with samples of both conditions
PlateauValidBatch == ValidBatch /\ loop'.valid_loss # NaN

PlateauEpochEnd == EpochEnd /\ PlateauHist(loop'.loss_hist)

NextPlateau ==
    \/ PlateauTrain
    \/ EpochBegin
    \/ TrainBatch
    \/ TrainBatchesDone
    \/ PlateauValidBatch
    \/ ValidBatchesDone
    \/ PlateauEpochEnd
    \/ MultiSave

SpecPlateau == InitPlateau /\ [][NextPlateau]_vars

\* ------------------------------------------------------------- properties
Max(S) == CHOOSE x \in S : \A y \in S : y <= x

MultiTraining == cls = "RCVAEMultiTF" /\ call.kind = "train"

\* The number of epochs, up to the last of hist, since the validation loss last
\* improved on its predecessor by more than min_delta; the first epoch has no
\* predecessor and is no such epoch
FlatRun(hist, min_delta) ==
    Len(hist) - Max({1} \cup {k \in 2..Len(hist) : Improved(hist[k - 1], hist[k], min_delta)})

\* C1: with validation enabled, RCVAEMultiTF.train has stopped early exactly when
\* the improvement of the validation loss has stayed at or below the threshold
\* for more than early_stop_limit consecutive epochs: at that epoch, never before
C1_StopsAfterLimitFlatEpochs ==
    (MultiTraining /\ args.use_validation) =>
        (loop.broke <=> FlatRun(loop.loss_hist, args.threshold) > args.early_stop_limit)

\* Whether the last n losses of h are one and the same
ConstantTail(h, n) ==
    /\ Len(h) >= n
    /\ \A k \in (Len(h) - n + 1)..Len(h) : h[k] = h[Len(h)]

\* C2: with early_stop_limit=20, once the validation loss has been the same for
\* 21 epochs, wherever in the run they began, train has stopped; and after the
\* stop the checkpoint holds the weights the model has
C2_PlateauStopsByEpoch21 ==
    (MultiTraining /\ args.early_stop_limit = DefaultEarlyStopLimit) =>
        /\ ConstantTail(loop.loss_hist, DefaultEarlyStopLimit + 1) => loop.broke
        /\ (pc = "idle" /\ outcome = "converged") =>
              (ckpt.exists /\ ckpt.params = params)

\* C3: in every class, train(use_validation=True, valid_data=None) raises before
\* any epoch: no optimizer step, no validation batch, no call of fit, nothing
\* written to the model directory
C3_NoValidDataRaisesBeforeAnyEpoch ==
    (call.kind = "train" /\ args.use_validation /\ args.valid_data = None) =>
        /\ pc = "idle"
        /\ outcome = "failed"
        /\ call.epochs = 0
        /\ call.batches = 0
        /\ call.valids = 0
        /\ call.fits = 0
        /\ call.saves = 0
        /\ version = call.pre_version
        /\ keras = call.pre_keras
        /\ ckpt = call.pre_ckpt
        /\ files = call.pre_files
        /\ dir_exists = call.pre_dir

C3_Witness ==
    /\ call.kind = "train"
    /\ args.use_validation
    /\ args.valid_data = None
    /\ args.initial_run
    /\ outcome = "failed"

\* C4: a call of RCVAEMultiTF.train never runs more than n_epochs epochs; it ends
\* converged (after the early stop), exhausted (after all n_epochs epochs) or
\* failed; and once begun it does end
C4_Outcomes ==
    MultiTraining =>
        /\ call.epochs <= args.n_epochs
        /\ (pc = "idle") =>
              /\ outcome \in {"converged", "exhausted", "failed"}
              /\ (outcome = "converged") => loop.broke
              /\ (outcome = "exhausted") =>
                    (~loop.broke /\ call.epochs = args.n_epochs)

\* What is left of a running call: the epochs not begun, and within the epoch
\* the mini-batches not run and the steps after them
NonNeg(x) == IF x > 0 THEN x ELSE 0

EpochSteps == MaxTrain + MaxValid + 4

StepsLeft ==
    CASE pc = "idle" -> 0
      [] pc = "save" -> 1
      [] pc = "epoch" -> 2 + NonNeg(args.n_epochs - loop.it) * EpochSteps
      [] pc = "train_batches" ->
            2 + (args.n_epochs - loop.it - 1) * EpochSteps
              + 3 + NonNeg(args.train_data - loop.lower) + NonNeg(args.valid_data)
      [] pc = "valid_batches" ->
            2 + (args.n_epochs - loop.it - 1) * EpochSteps
              + 2 + NonNeg(args.valid_data - loop.lower)
      [] pc = "epoch_end" ->
            2 + (args.n_epochs - loop.it - 1) * EpochSteps + 1

\* (C4, continued) a running call can always take its next step, and each step
\* leaves strictly less to do: the call runs a bounded number of steps and ends
C4_TrainTerminates ==
    /\ []C4_Outcomes
    /\ []((pc # "idle") => ENABLED Next)
    /\ [][(pc # "idle") => (StepsLeft' < StepsLeft)]_vars

\* (C4, as a liveness property under FairSpec) a call that has begun ends
C4_EventuallyEnds ==
    (pc # "idle") ~> (pc = "idle" /\ outcome \in {"converged", "exhausted", "failed"})

C4_Witness ==
    /\ MultiTraining
    /\ pc = "idle"
    /\ outcome = "exhausted"
    /\ call.epochs = MaxEpochs

\* C5: in RCVAEMultiTF.train the optimizer has stepped once for each training
\* mini-batch run and for nothing else, and through an epoch's validation pass
\* the weights stay what they were when the pass began
C5_StepsOnlyInTrainingBatches ==
    MultiTraining =>
        /\ version = call.pre_version + call.batches
        /\ (call.batches > 0) => (params = version)
        /\ (args.use_validation /\ pc \in {"valid_batches", "epoch_end"}) =>
              (params = call.valid_start)

C5_Witness ==
    /\ MultiTraining
    /\ pc = "epoch_end"
    /\ call.batches = 2
    /\ call.valids = 2

\* C6: when train has returned normally, the model directory exists and holds the
\* current weights: the checkpoint of RCVAEMultiTF, and for RCVAE and RCCVAE
\* called with save=True the three files of the full model, encoder and decoder
C6_ReturnedMeansPersisted ==
    (call.kind = "train" /\ pc = "idle"
        /\ outcome \in {"converged", "exhausted", "returned"}) =>
        IF cls = "RCVAEMultiTF"
        THEN /\ dir_exists
             /\ ckpt = [exists |-> TRUE, params |-> params, global_step |-> global_step]
        ELSE args.save =>
                /\ dir_exists
                /\ \A k \in 1..3 :
                      /\ TrainWrites(cls)[k] \in DOMAIN files
                      /\ files[TrainWrites(cls)[k]] = keras[Slot(k)]

C6_Witness ==
    /\ MultiTraining
    /\ pc = "idle"
    /\ outcome = "converged"
    /\ ~call.pre_dir
    /\ call.batches > 0

\* C7: after train(save=True) of RCVAE or RCCVAE has returned, the model
\* directory holds every file restore_model reads
C7_RestoreReadsWhatTrainWrote ==
    (cls \in KerasClasses /\ call.kind = "train" /\ outcome = "returned" /\ args.save) =>
        RestoreFindsAll(files, cls)

\* C8: when restore_model of RCVAE or RCCVAE has failed on a missing file, the
\* full model, the encoder and the decoder are what they were before the call
C8_FailedRestoreChangesNothing ==
    (cls \in KerasClasses /\ call.kind = "restore_model" /\ outcome = "failed") =>
        /\ keras.full = call.pre_keras.full
        /\ keras.encoder = call.pre_keras.encoder
        /\ keras.decoder = call.pre_keras.decoder

\* The number of calls of compute_mmd on the partitions i and j, in either order
CallsOn(calls, i, j) ==
    Cardinality({q \in DOMAIN calls : {calls[q][1], calls[q][2]} = {i, j}})

\* C9: the loss of RCVAEMultiTF calls compute_mmd once on every pair of distinct
\* partitions, and on nothing else
C9_EveryPairOnce ==
    (cls = "RCVAEMultiTF" /\ loss_out.done) =>
        \A i, j \in 0..(batch.n_conditions - 1) :
            CallsOn(loss_out.calls, i, j) = (IF i = j THEN 0 ELSE 1)

\* C10: in every class, the loss of a mini-batch that lacks a condition is a
\* number, or the evaluation raised
C10_EmptyPartitionDefined ==
    loss_out.done => (loss_out.raised \/ loss_out.trvae_loss # NaN)

\* C20: for more than 2 conditions, the pairs of partitions the MMD loop of
\* RCVAEMultiTF calls compute_mmd on are exactly the adjacent pairs (k, k + 1),
\* 0 <= k < N - 1, and no index leaves 0..N-1
C20_OnlyAdjacentPairs ==
    (cls = "RCVAEMultiTF" /\ loss_out.done /\ batch.n_conditions > 2) =>
        /\ {loss_out.calls[q] : q \in DOMAIN loss_out.calls}
              = {<<k, k + 1>> : k \in 0..(batch.n_conditions - 2)}
        /\ \A q \in DOMAIN loss_out.calls :
              loss_out.calls[q][2] <= batch.n_conditions - 1

C20_Witness ==
    /\ cls = "RCVAEMultiTF"
    /\ loss_out.done
    /\ batch.n_conditions = MaxConditions
    /\ Len(loss_out.calls) > 2

C13_SelfDiscrepancyIsZero ==
    (kern.op = "mmd" /\ ~kern.raised /\ kern.x = kern.y) => (kern.mmd.terms = {})

C13_Witness ==
    /\ kern.op = "mmd"
    /\ ~kern.raised
    /\ kern.x = kern.y
    /\ Len(kern.x[1]) = MaxDim
    /\ kern.kind = "multi-scale-rbf"

\* C14: for every kernel kind the class has and all batches x and y,
\* compute_mmd(x, y) = compute_mmd(y, x)
C14_MmdIsSymmetric ==
    (kern.op = "mmd" /\ ~kern.raised) =>
        (kern.mmd = compute_mmd(cls, kern.y, kern.x, kern.kind, kern.scales))

C14_Witness ==
    /\ kern.op = "mmd"
    /\ ~kern.raised
    /\ Len(kern.x) # Len(kern.y)
    /\ kern.mmd.terms # {}

\* C15: in every class compute_kernel returns, for each of the kinds rbf,
\* multi-scale-rbf and raphy, a matrix with a row for each row of x and a column
\* for each row of y
C15_EveryKindGivesAMatrix ==
    (kern.op = "kernel") =>
        /\ ~kern.returned_none
        /\ Len(kern.kernel) = Len(kern.x)
        /\ \A i \in DOMAIN kern.kernel : Len(kern.kernel[i]) = Len(kern.y)

\* C17: in every class, a call train(initial_run=False) that finds a saved model
\* starts its first optimizer step from the persisted parameters: RCVAEMultiTF's
\* first sess.run of the optimizer from what the checkpoint holds, the fit of
\* RCVAE / RCCVAE from what train last wrote as the full model.
C17_ResumesFromSaved ==
    [][/\ (/\ cls = "RCVAEMultiTF"
           /\ call.kind = "train" /\ ~args.initial_run
           /\ call.batches = 0 /\ call'.batches = 1
           /\ call.pre_ckpt.exists)
          => (params = call.pre_ckpt.params)
       /\ (/\ cls \in KerasClasses
           /\ call'.kind = "train" /\ ~args'.initial_run
           /\ call'.fits = 1 /\ call'.epochs > 0
           /\ TrainWrites(cls)[1] \in DOMAIN files)
          => (keras.full = files[TrainWrites(cls)[1]])]_vars

\* RCVAEMultiTF alone: the same first step
C17_MultiResumesFromSaved ==
    [][(/\ cls = "RCVAEMultiTF"
        /\ call.kind = "train" /\ ~args.initial_run
        /\ call.batches = 0 /\ call'.batches = 1
        /\ call.pre_ckpt.exists)
       => (params = call.pre_ckpt.params)]_vars

C11_WitnessRaw ==
    /\ cls = "RCCVAE"
    /\ net.op = "predict"
    /\ ~net.raised
    /\ net.data_space = "None"
    /\ net.encoder_labels # net.decoder_labels
    /\ Len(net.outs) = 1

\* C16: two calls of to_latent on the same data and labels, the parameters
\* unchanged between them, return the same latent coordinates, in each class.
C16_ToLatentDeterministic ==
    (net.op = "to_latent" /\ Len(net.latents) >= 2) =>
        (net.latents[1] = net.latents[2])

\* RCVAE alone, whose encoder has no sampling layer
C16_RCVAEToLatentDeterministic ==
    (cls = "RCVAE" /\ net.op = "to_latent" /\ Len(net.latents) >= 2) =>
        (net.latents[1] = net.latents[2])

\* C18: every matrix handed to a network by to_latent, to_mmd_layer or predict
\* (and, below, by train) is dense.
C18_NetworkSeesDense == \A m \in net.fed : ~m.sparse

\* The same for train, on training and validation data
C18_TrainFeedsDense == (call.kind = "train") => (\A m \in net.fed : ~m.sparse)

\* C19: for every image shape (H, W, C), an RCCVAE of the U-Net style is built
\* with a decoder whose reconstruction has shape (H, W, C): the reshape target
\* holds exactly the 4096 values, and the four up-samplings give back H and W.
C19_UNetKeepsTheShape ==
    (built.done /\ built.arch_style \notin {1, 2}) =>
        /\ ~built.raised
        /\ built.x_hat = built.x_dim

\* The shapes for which it does: both sides multiples of 16 and the number of
\* cells (H/16) * (W/16) a divisor of 4096
C19_UNetKeepsMultiplesOf16 ==
    (/\ built.done /\ built.arch_style \notin {1, 2}
     /\ built.x_dim[1] % ReshapeDivisor = 0
     /\ built.x_dim[2] % ReshapeDivisor = 0
     /\ ReshapeUnits % ((built.x_dim[1] \div ReshapeDivisor)
                          * (built.x_dim[2] \div ReshapeDivisor)) = 0) =>
        /\ ~built.raised
        /\ built.x_hat = built.x_dim

\* C21: over N conditions the MMD accumulation of RCVAEMultiTF adds every
\* adjacent pair (k, k + 1) to the loss exactly once, so that the sum has N - 1
\* terms.
C21_AdjacentPairsOnceEach ==
    (cls = "RCVAEMultiTF" /\ loss_out.done) =>
        /\ \A k \in 0..(batch.n_conditions - 2) :
              CallsOn(loss_out.calls, k, k + 1) = 1
        /\ Len(loss_out.calls) = batch.n_conditions - 1

\* What the loops do: the pair (k, k + 1) is added N - 1 - k times, which makes
\* N (N - 1) / 2 terms
C21_AdjacentPairsWeights ==
    (cls = "RCVAEMultiTF" /\ loss_out.done) =>
        /\ \A k \in 0..(batch.n_conditions - 2) :
              CallsOn(loss_out.calls, k, k + 1) = batch.n_conditions - 1 - k
        /\ 2 * Len(loss_out.calls) = batch.n_conditions * (batch.n_conditions - 1)

\* ceil(n / b) for b >= 1
CeilDiv(n, b) == (n + b - 1) \div b

\* C22: in every epoch of RCVAEMultiTF.train the training mini-batches are
\* contiguous (each starts where the one before it ended, the first at row 0) and
\* disjoint, all hold batch_size rows except possibly the last, which is not
\* empty; once the pass over the training data is over they cover every row, and
\* there were ceil(N / batch_size) of them, each with one optimizer step.
C22_BatchesPartitionTheEpoch ==
    (MultiTraining /\ pc \in {"train_batches", "valid_batches", "epoch_end"}) =>
        LET mbs == loop.mbs
            N == args.train_data
            B == args.batch_size
        IN /\ \A k \in DOMAIN mbs :
                 /\ mbs[k] # {}
                 /\ mbs[k] = ((k - 1) * B + 1)..Max({r \in mbs[k] : TRUE})
                 /\ mbs[k] \subseteq 1..N
                 /\ (k < Len(mbs)) => (Cardinality(mbs[k]) = B)
                 /\ Cardinality(mbs[k]) <= B
           /\ \A k, m \in DOMAIN mbs : (k # m) => (mbs[k] \cap mbs[m] = {})
           /\ (pc # "train_batches" \/ loop.lower >= N) =>
                 /\ UNION {mbs[k] : k \in DOMAIN mbs} = 1..N
                 /\ Len(mbs) = CeilDiv(N, B)
                 /\ call.batches = call.epochs * CeilDiv(N, B)

\* The pass of a second epoch is over, and its last mini-batch is a short one
C22_Witness ==
    /\ MultiTraining
    /\ pc = "epoch_end"
    /\ call.epochs >= 2
    /\ Len(loop.mbs) >= 1
    /\ Cardinality(loop.mbs[Len(loop.mbs)]) < args.batch_size

\* The pass of a second epoch is over, and it had several mini-batches
C22_WitnessSeveral ==
    /\ MultiTraining
    /\ pc = "epoch_end"
    /\ call.epochs >= 2
    /\ Len(loop.mbs) >= 2

\* The call of train failed in a training mini-batch: an epoch had begun, and
\* its pass over the training data is not complete
FailedStep ==
    /\ MultiTraining
    /\ outcome = "failed"
    /\ call.epochs >= 1
    /\ Len(loop.mbs) < CeilDiv(args.train_data, args.batch_size)

\* C23: when an optimizer step of RCVAEMultiTF.train fails, train is left with
\* the failure (the caller has it), the step is not run again, no further
\* mini-batch or epoch of the call runs, and the call has written no checkpoint.
C23_FailedStepEndsTheCall ==
    FailedStep =>
        /\ pc = "idle"
        /\ ~ENABLED TrainBatch
        /\ ~ENABLED ValidBatch
        /\ ~ENABLED EpochBegin
        /\ ~ENABLED MultiSave
        /\ call.saves = 0
        /\ ckpt = call.pre_ckpt
        /\ dir_exists = call.pre_dir

\* A step fails after others of the call, in a second epoch, were applied
C23_Witness ==
    /\ FailedStep
    /\ call.epochs >= 2
    /\ call.batches >= 1
    /\ params # call.pre_params

\* C24: with shuffle, RCVAEMultiTF.train shuffles the training set anew in each
\* epoch (one call of shuffle_data per epoch begun); without shuffle the rows
\* keep the caller's order in every epoch.
C24_ShufflesEachEpoch ==
    (MultiTraining /\ pc = "train_batches") =>
        IF args.shuffle
        THEN call.shuffles = call.epochs
        ELSE /\ call.shuffles = 0
             /\ loop.order = [r \in 1..args.train_data |-> r]

\* What train does: whatever shuffle is, the order of the rows, and with it the
\* assignment of samples to mini-batches, is the same in every epoch of a call
C24_OneOrderPerCall ==
    [][(MultiTraining /\ pc # "idle" /\ pc' # "idle") =>
          /\ loop'.order = loop.order
          /\ call'.shuffles = call.shuffles]_vars

\* C25: a call of to_latent, to_mmd_layer or predict on an RCVAEMultiTF feeds
\* every placeholder the fetched tensor depends on, so that sess.run does not
\* raise for a missing input; and what predict returns is decoded under the
\* labels predict was given.
C25_InferenceFeedsItsInputs ==
    (/\ cls = "RCVAEMultiTF"
     /\ net.op \in {"to_latent", "to_mmd_layer", "predict"}
     /\ \A m \in net.fed : ~m.sparse) =>
        /\ ~net.raised
        /\ (net.op = "predict") =>
              (Len(net.outs) = 1 /\ net.outs[1].labels = net.encoder_labels)

\* to_latent alone, whose feed_dict is complete
C25_ToLatentFeedsItsInputs ==
    (cls = "RCVAEMultiTF" /\ net.op = "to_latent") => ~net.raised

\* The number of rows of the partitions 0..k
RECURSIVE PartSizes(_, _)
PartSizes(parts, k) ==
    IF k < 0 THEN 0 ELSE Cardinality(parts[k]) + PartSizes(parts, k - 1)

\* C26: the MMD loss of RCVAEMultiTF partitions a mini-batch by the integer
\* labels it was built from: every sample is in the partition indexed by its own
\* label and in no other, and the sizes of the partitions sum to the size of the
\* mini-batch.
C26_PartitionKeyIsTheLabel ==
    (cls = "RCVAEMultiTF" /\ loss_out.done) =>
        /\ DOMAIN loss_out.parts = 0..(batch.n_conditions - 1)
        /\ \A s \in DOMAIN batch.y_mb :
              \A k \in DOMAIN loss_out.parts :
                  (s \in loss_out.parts[k]) <=> (k = batch.y_mb[s])
        /\ PartSizes(loss_out.parts, batch.n_conditions - 1) = Len(batch.y_mb)

\* A mini-batch with samples of several conditions, the last one among them
C26_Witness ==
    /\ cls = "RCVAEMultiTF"
    /\ loss_out.done
    /\ batch.n_conditions = MaxConditions
    /\ \E s, t \in DOMAIN batch.y_mb :
          batch.y_mb[s] = MaxConditions - 1 /\ batch.y_mb[t] = 0

\* C27: a call of RCVAEMultiTF.train with use_validation false never touches
\* loss_hist or patience_cnt and never breaks out of the epoch loop; unless it
\* fails, it comes to the final save after exactly n_epochs epochs.
C27_NoValidationNoEarlyStop ==
    (MultiTraining /\ ~args.use_validation) =>
        /\ loop.loss_hist = << >>
        /\ loop.patience_cnt = 0
        /\ ~loop.broke
        /\ outcome # "converged"
        /\ call.epochs <= args.n_epochs
        /\ (pc = "save" \/ outcome = "exhausted") => (call.epochs = args.n_epochs)

\* Such a call has run all of its several epochs and is over
C27_Witness ==
    /\ MultiTraining
    /\ ~args.use_validation
    /\ outcome = "exhausted"
    /\ call.epochs = MaxEpochs
    /\ call.batches > call.epochs

\* A call of RCVAEMultiTF.train that raised the configuration error of line 434
MultiConfigFailure ==
    /\ MultiTraining
    /\ outcome = "failed"
    /\ ConfigError(args)

\* C28: when RCVAEMultiTF.train raises the missing-validation-data error, the
\* parameters and global_step of the instance are the ones it had before the
\* call, whether initial_run is true or false.
C28_ConfigErrorLeavesInstance ==
    MultiConfigFailure =>
        /\ params = call.pre_params
        /\ global_step = call.pre_step

\* C28, for initial_run true alone: global_step is the one before the call
C28_ConfigErrorKeepsStep ==
    (MultiConfigFailure /\ args.initial_run) => (global_step = call.pre_step)

\* C28, for initial_run false alone: the parameters are the ones before the call
C28_ConfigErrorKeepsParams ==
    (MultiConfigFailure /\ ~args.initial_run) => (params = call.pre_params)

\* C28, for RCCVAE: a call of train that raises the missing-validation-data
\* error leaves the caller's train_data.X as it was
C28_ConfigErrorKeepsTrainData ==
    [][(/\ cls = "RCCVAE"
        /\ call'.kind = "train"
        /\ call' # call
        /\ ConfigError(args')
        /\ outcome' = "failed")
       => (net'.data = net.data)]_vars

\* A verbose call of RCVAEMultiTF.train on a non-empty training set and, with
\* validation, a non-empty validation set
ReportedCall ==
    /\ MultiTraining
    /\ args.verbose
    /\ args.train_data >= 1
    /\ args.use_validation => args.valid_data >= 1

\* C29: in a verbose call of RCVAEMultiTF.train with N >= 1 training rows,
\* M >= 1 validation rows and batch size B >= 1, no divisor of a per-epoch report
\* (N // B, M // B) is zero.
C29_ReportDivisorsNonZero ==
    ReportedCall => (\A k \in DOMAIN loop.report : loop.report[k] # 0)

\* C29, the part that holds: in such a call the end of an epoch never fails the
\* run (the sums are numpy scalars by then, and dividing one by 0 gives inf or
\* nan with a warning)
C29_ReportNeverFailsRun ==
    [][(ReportedCall /\ pc = "epoch_end") => (outcome' # "failed")]_vars

\* C29: a report has been printed with a zero divisor after a successful epoch
C29_ZeroDivisorReported ==
    /\ ReportedCall
    /\ loop.it >= 1
    /\ call.batches >= 1
    /\ \E k \in DOMAIN loop.report : loop.report[k] = 0

\* The number of most recent consecutive epochs of hist whose loss is no
\* improvement on that of the epoch before by more than min_delta, the first
\* epoch counting as one of them
UnimprovedRun(hist, min_delta) ==
    Len(hist) - Max({0} \cup {k \in 2..Len(hist) :
                                hist[k - 1] # NaN /\ hist[k] # NaN
                                /\ hist[k - 1] - hist[k] > min_delta})

\* The positions of train inside the epoch loop
InEpochLoop == pc \in {"epoch", "train_batches", "valid_batches", "epoch_end"}

====
